---- MODULE Spec2Model ----
(***************************************************************************)
(* A model of src/usb2000.py: the USB2000 main window of pyspectro.        *)
(*                                                                         *)
(* The window is a single-threaded Qt program.  Its state is the fields    *)
(* set in USB2000.__init__, the three action buttons' enabled flags, the   *)
(* status label and the data last handed to the plot.  Its operations are  *)
(* the slots wired up in build_toolbar (button clicks, field commits) and  *)
(* the 30 ms timer slot `update`.  A slot runs to completion on the GUI    *)
(* thread; input that arrives while the timer slot is still acquiring      *)
(* waits in the event queue and is delivered afterwards.                   *)
(*                                                                         *)
(* Outside the program: the spectrometer (it may or may not be found, may  *)
(* accept or reject an integration time, and each read of a scan may       *)
(* succeed or fail) and the operator (what is clicked, typed and chosen in *)
(* the file dialog).  Both are nondeterministic inputs of the actions.     *)
(***************************************************************************)
EXTENDS Integers, Sequences, FiniteSets, TLC

\* ---------------------------------------------------------------- bounds

\* Number of detector pixels of the instrument (length of one scan and of
\* the wavelength calibration).
NPixels == 2

\* Number of distinct readings the instrument can return for one scan.
NScans == 2

\* Number of Spectrometer objects from_first_available can hand out during
\* one run (unopened instruments on the bus).
MaxHandles == 1

\* The positive integer the operator types into the two integer fields.
TypedPositive == 1

\* Number of input events that can wait while the timer slot is running.
MaxQueue == 1

\* ------------------------------------------------------ program constants

\* self.integration_time_us = 20000
DefaultIntegrationTime == 20000

\* self.scans_to_average = 4
DefaultScansToAverage == 4

\* self.start_capture_button.setEnabled(False) in build_toolbar
StartInitiallyEnabled_Mut == TRUE
StartInitiallyEnabled == FALSE

\* self.stop_capture_button.setEnabled(False) in build_toolbar
StopInitiallyEnabled_Mut == TRUE
StopInitiallyEnabled == FALSE

\* ------------------------------------------------------------ environment

\* Integers the operator commits in a field.  The QIntValidator lets any
\* integer through; no statement of the program tells a negative integer
\* from zero, so zero stands for the integers that are not positive.
FieldInts == {0, TypedPositive}

\* spec.wavelengths(): one wavelength per pixel, ascending.
Calibration == [p \in 1..NPixels |-> 329 + p]

\* The k-th reading the instrument can return from spec.intensities().
Scan(k) == [p \in 1..NPixels |-> 2 * (k - 1) + p]

\* What the file dialog returns: "" when the operator cancels.
Filenames == {"", "out.csv"}

\* Input events of the operator, by the slot they are connected to.
Events == {"connect", "start", "stop", "commit_time", "commit_scans", "export"}

\* ------------------------------------------------------------- arithmetic

RECURSIVE GCD(_, _)
GCD(a, b) == IF b = 0 THEN a ELSE GCD(b, a % b)

\* The quotient a / b of two naturals, b > 0, as a fraction in lowest terms.
Frac(a, b) == LET g == GCD(a, b) IN <<a \div g, b \div g>>

RECURSIVE SumCol(_, _)
\* Sum of the readings at pixel p over a list of scans.
SumCol(scans, p) ==
    IF scans = <<>> THEN 0 ELSE Head(scans)[p] + SumCol(Tail(scans), p)

\* np.mean(scans, axis=0), taking only the first scan.
MeanAxis0_Mut(scans) == [p \in 1..Len(scans[1]) |-> Frac(scans[1][p], 1)]

\* np.mean(scans, axis=0): per pixel, the sum over the list divided by the
\* length of the list.
MeanAxis0(scans) ==
    [p \in 1..Len(scans[1]) |-> Frac(SumCol(scans, p), Len(scans))]

\* ------------------------------------------------------------------ state

VARIABLES
    integration_time_us,    \* self.integration_time_us
    spec,                   \* self.spec: 0 is None, h > 0 the h-th Spectrometer
    initialized,            \* self.initialized
    wavelengths,            \* self.wavelengths
    intensities,            \* self.intensities: the scans of the batch so far
    averaged_intensities,   \* self.averaged_intensities
    scans_to_average,       \* self.scans_to_average
    capturing,              \* self.capturing
    connect_enabled,        \* self.connect_button.isEnabled()
    start_enabled,          \* self.start_capture_button.isEnabled()
    stop_enabled,           \* self.stop_capture_button.isEnabled()
    status,                 \* self.status_label.text()
    x_range,                \* the plot widget's X range
    plot_data,              \* the data last given to self.plot
    device_time,            \* the instrument's integration time, <<>> if
                            \* never set, else <<microseconds>>
    pc,                     \* "idle", or "batch" inside read_spectrum's loop
    n,                      \* the loop's range(self.scans_to_average)
    i,                      \* the loop's index: acquisitions attempted
    queue,                  \* input events waiting for the timer slot to end
    last                    \* what the slot that ran last did: its name, how
                            \* it ended, the path the file dialog gave it,
                            \* the rows it wrote to the export file, the
                            \* reads it attempted and the scans those reads
                            \* returned

vars == <<integration_time_us, spec, initialized, wavelengths, intensities,
          averaged_intensities, scans_to_average, capturing, connect_enabled,
          start_enabled, stop_enabled, status, x_range, plot_data,
          device_time, pc, n, i, queue, last>>

session == <<integration_time_us, scans_to_average>>
device  == <<spec, initialized, wavelengths, x_range, device_time>>
buttons == <<connect_enabled, start_enabled, stop_enabled>>
spectra == <<intensities, averaged_intensities, plot_data>>
loop    == <<pc, n, i>>

Ran(op, result) ==
    [op |-> op, result |-> result, path |-> "", wrote |-> <<>>,
     attempts |-> 0, scans |-> <<>>]

Chosen(rec, filename) == [rec EXCEPT !.path = filename]

Wrote(result, rows) == [Ran("export", result) EXCEPT !.wrote = rows]

Batch(result, attempts, scans) ==
    [Ran("tick", result) EXCEPT !.attempts = attempts, !.scans = scans]

\* USB2000.__init__, build_toolbar and build_plot.
Init ==
    /\ integration_time_us = DefaultIntegrationTime
    /\ spec = 0
    /\ initialized = FALSE
    /\ wavelengths = <<>>
    /\ intensities = <<>>
    /\ averaged_intensities = <<>>
    /\ scans_to_average = DefaultScansToAverage
    /\ capturing = FALSE
    /\ connect_enabled = TRUE
    /\ start_enabled = StartInitiallyEnabled
    /\ stop_enabled = StopInitiallyEnabled
    /\ status = "STATUS: No device connected"
    /\ x_range = <<330, 1025>>
    /\ plot_data = <<<<0>>, <<Frac(0, 1)>>>>
    /\ device_time = <<>>
    /\ pc = "idle"
    /\ n = 0
    /\ i = 0
    /\ queue = <<>>
    /\ last = Ran("none", "none")

\* ------------------------------------------------------------ connecting

\* init_spectrometer, were line 71 to apply the default integration time
\* rather than the one configured.
init_spectrometer_Mut(fail) ==
    LET probed == fail # 1
        timed  == fail \notin {1, 2}
        read   == fail \notin {1, 2, 3}
        ok     == fail = 0
    IN  /\ probed => spec < MaxHandles
        /\ spec' = IF probed THEN spec + 1 ELSE spec
        /\ device_time' = IF timed THEN <<DefaultIntegrationTime>>
                                   ELSE device_time
        /\ wavelengths' = IF read THEN Calibration ELSE wavelengths
        /\ x_range' = IF ok THEN <<Calibration[1], Calibration[NPixels]>>
                            ELSE x_range
        /\ initialized' = IF ok THEN TRUE ELSE initialized
        /\ status' = IF ok THEN "Device initialized: USB2000"
                           ELSE "No device detected"
        /\ connect_enabled' = IF ok THEN FALSE ELSE connect_enabled
        /\ start_enabled' = IF ok THEN TRUE ELSE start_enabled
        /\ last' = Ran("connect", IF ok THEN "ok" ELSE "failed")
        /\ UNCHANGED <<session, capturing, stop_enabled, spectra, loop>>

\* init_spectrometer.  `fail` is the step of the try block that raises:
\* 1 from_first_available, 2 integration_time_micros, 3 wavelengths,
\* 4 setXRange, 0 none.  Each statement before the failing one has taken
\* effect when the except branch runs.
init_spectrometer(fail) ==
    LET probed == fail # 1
        timed  == fail \notin {1, 2}
        read   == fail \notin {1, 2, 3}
        ok     == fail = 0
    IN  /\ probed => spec < MaxHandles
        /\ spec' = IF probed THEN spec + 1 ELSE spec
        /\ device_time' = IF timed THEN <<integration_time_us>> ELSE device_time
        /\ wavelengths' = IF read THEN Calibration ELSE wavelengths
        /\ x_range' = IF ok THEN <<Calibration[1], Calibration[NPixels]>>
                            ELSE x_range
        /\ initialized' = IF ok THEN TRUE ELSE initialized
        /\ status' = IF ok THEN "Device initialized: USB2000"
                           ELSE "No device detected"
        /\ connect_enabled' = IF ok THEN FALSE ELSE connect_enabled
        /\ start_enabled' = IF ok THEN TRUE ELSE start_enabled
        /\ last' = Ran("connect", IF ok THEN "ok" ELSE "failed")
        /\ UNCHANGED <<session, capturing, stop_enabled, spectra, loop>>

\* ------------------------------------------------------ capture start/stop

\* start_capture, were line 127 (disabling the start button) left out.
start_capture_Mut ==
    /\ capturing' = TRUE
    /\ stop_enabled' = TRUE
    /\ last' = Ran("start", "ok")
    /\ UNCHANGED <<session, device, connect_enabled, start_enabled, status,
                   spectra, loop>>

\* start_capture
start_capture ==
    /\ capturing' = TRUE
    /\ start_enabled' = FALSE
    /\ stop_enabled' = TRUE
    /\ last' = Ran("start", "ok")
    /\ UNCHANGED <<session, device, connect_enabled, status, spectra,
                   loop>>

\* stop_capture, also forgetting the device.
stop_capture_Mut ==
    /\ capturing' = FALSE
    /\ initialized' = FALSE
    /\ start_enabled' = TRUE
    /\ stop_enabled' = FALSE
    /\ last' = Ran("stop", "ok")
    /\ UNCHANGED <<session, spec, wavelengths, x_range, device_time,
                   connect_enabled, status, spectra, loop>>

\* stop_capture, also dropping the wavelength axis.
stop_capture_clear_Mut ==
    /\ capturing' = FALSE
    /\ wavelengths' = <<>>
    /\ start_enabled' = TRUE
    /\ stop_enabled' = FALSE
    /\ last' = Ran("stop", "ok")
    /\ UNCHANGED <<session, spec, initialized, x_range, device_time,
                   connect_enabled, status, spectra, loop>>

\* stop_capture
stop_capture ==
    /\ capturing' = FALSE
    /\ start_enabled' = TRUE
    /\ stop_enabled' = FALSE
    /\ last' = Ran("stop", "ok")
    /\ UNCHANGED <<session, device, connect_enabled, status, spectra,
                   loop>>

\* ------------------------------------------------------------ field commits

\* update_integration_time with the field holding v.  The assignment to
\* self.integration_time_us comes first; the call on self.spec raises when
\* self.spec is None or the instrument rejects the value (accepted = FALSE),
\* and the except branch only prints.
update_integration_time(v, accepted) ==
    LET applied == spec # 0 /\ accepted
    IN  /\ integration_time_us' = v
        /\ device_time' = IF applied THEN <<v>> ELSE device_time
        /\ last' = Ran("commit_time", IF applied THEN "ok" ELSE "failed")
        /\ UNCHANGED <<scans_to_average, spec, initialized, wavelengths,
                       x_range, capturing, buttons, status, spectra,
                       loop>>

\* update_scans_to_average with the field holding v.
update_scans_to_average(v) ==
    /\ scans_to_average' = v
    /\ last' = Ran("commit_scans", "ok")
    /\ UNCHANGED <<integration_time_us, device, capturing, buttons, status,
                   spectra, loop>>

\* ------------------------------------------------------------------ export

\* `self.intensities is None`: the field only ever holds a list (it is
\* assigned [] in __init__ and in read_spectrum), so the test is never true.
IntensitiesIsNone == FALSE

Min(a, b) == IF a < b THEN a ELSE b

\* The rows csv.writer has written when the loop over range(len(wavelengths))
\* ends or indexing averaged_intensities raises IndexError.
Rows == <<<<"Wavelength", "Intensity">>>> \o
        [p \in 1..Min(Len(wavelengths), Len(averaged_intensities)) |->
            <<wavelengths[p], averaged_intensities[p]>>]

\* export_data, were the `if not filename` return left out.
export_data_Mut(filename) ==
    /\ UNCHANGED <<session, device, capturing, buttons, spectra, loop>>
    /\ IF IntensitiesIsNone
       THEN /\ status' = "ERROR: No data to export"
            /\ last' = Ran("export", "no_data")
       ELSE IF Len(averaged_intensities) < Len(wavelengths)
       THEN /\ last' = Chosen(Wrote("raised", Rows), filename)
            /\ UNCHANGED status
       ELSE /\ status' = "INFO: Data exported to out.csv"
            /\ last' = Chosen(Wrote("ok", Rows), filename)

\* export_data with the file dialog returning filename.
export_data(filename) ==
    /\ UNCHANGED <<session, device, capturing, buttons, spectra, loop>>
    /\ IF IntensitiesIsNone
       THEN /\ status' = "ERROR: No data to export"
            /\ last' = Ran("export", "no_data")
       ELSE IF filename = ""
       THEN /\ status' = "ERROR: No file selected"
            /\ last' = Chosen(Ran("export", "no_file"), filename)
       ELSE IF Len(averaged_intensities) < Len(wavelengths)
       THEN /\ last' = Chosen(Wrote("raised", Rows), filename)
            /\ UNCHANGED status
       ELSE /\ status' = "INFO: Data exported to out.csv"
            /\ last' = Chosen(Wrote("ok", Rows), filename)

\* --------------------------------------------------------- the event loop

\* A click on a disabled button is not delivered to its slot.
Refused(e) ==
    /\ last' = Ran(e, "refused")
    /\ UNCHANGED <<session, device, capturing, buttons, status, spectra,
                   loop>>

\* The GUI thread is free to deliver an event only between slots.
EventLoopFree_Mut == TRUE
EventLoopFree == pc = "idle"

\* The event loop delivers input event e: the oldest waiting event, or, when
\* none waits, what the operator does now.
Delivered(e) ==
    /\ EventLoopFree
    /\ IF queue = <<>> THEN TRUE ELSE Head(queue) = e
    /\ queue' = IF queue = <<>> THEN queue ELSE Tail(queue)

\* The operator acts while the timer slot is running: the event waits.
Post ==
    /\ pc = "batch"
    /\ Len(queue) < MaxQueue
    /\ \E e \in Events : queue' = Append(queue, e)
    /\ UNCHANGED <<session, device, capturing, buttons, status, spectra,
                   loop, last>>

ClickConnect ==
    /\ Delivered("connect")
    /\ IF connect_enabled
       THEN \E fail \in 0..4 : init_spectrometer(fail)
       ELSE Refused("connect")

ClickStart ==
    /\ Delivered("start")
    /\ IF start_enabled THEN start_capture ELSE Refused("start")

ClickStop ==
    /\ Delivered("stop")
    /\ IF stop_enabled THEN stop_capture ELSE Refused("stop")

CommitIntegrationTime ==
    /\ Delivered("commit_time")
    /\ \E v \in FieldInts, accepted \in BOOLEAN :
          update_integration_time(v, accepted)

CommitScansToAverage ==
    /\ Delivered("commit_scans")
    /\ \E v \in FieldInts : update_scans_to_average(v)

ClickExport ==
    /\ Delivered("export")
    /\ \E filename \in Filenames : export_data(filename)

\* ---------------------------------------------------------- the timer slot

\* `if len(self.intensities) > 0`, were the test dropped.
HasScans_Mut(scans) == TRUE

\* `if len(self.intensities) > 0`
HasScans(scans) == Len(scans) > 0

\* np.mean over the scans read; over no scans it yields no spectrum.
MeanOf(scans) == IF scans = <<>> THEN <<>> ELSE MeanAxis0(scans)

\* The end of the timer slot, were plot.setData to run before read_spectrum.
EndOfBatch_Mut(scans, attempts) ==
    /\ IF HasScans(scans)
       THEN /\ averaged_intensities' = MeanOf(scans)
            /\ intensities' = <<>>
            /\ last' = Batch("averaged", attempts, scans)
       ELSE /\ intensities' = scans
            /\ last' = Batch("retained", attempts, scans)
            /\ UNCHANGED averaged_intensities
    /\ plot_data' = <<wavelengths, averaged_intensities>>
    /\ pc' = "idle"
    /\ n' = 0
    /\ i' = 0

\* read_spectrum after its loop, with `scans` read in `attempts` reads, and
\* the plot.setData that follows it in update: the end of the timer slot.
EndOfBatch(scans, attempts) ==
    /\ IF HasScans(scans)
       THEN /\ averaged_intensities' = MeanOf(scans)
            /\ intensities' = <<>>
            /\ last' = Batch("averaged", attempts, scans)
       ELSE /\ intensities' = scans
            /\ last' = Batch("retained", attempts, scans)
            /\ UNCHANGED averaged_intensities
    /\ plot_data' = <<wavelengths, averaged_intensities'>>
    /\ pc' = "idle"
    /\ n' = 0
    /\ i' = 0

\* The timer slot, were update to test self.initialized only.
Tick_Mut ==
    /\ pc = "idle"
    /\ UNCHANGED <<session, device, capturing, buttons, status, queue>>
    /\ IF initialized
       THEN IF 0 < scans_to_average
            THEN /\ intensities' = <<>>
                 /\ n' = scans_to_average
                 /\ i' = 0
                 /\ pc' = "batch"
                 /\ last' = Ran("tick", "running")
                 /\ UNCHANGED <<averaged_intensities, plot_data>>
            ELSE EndOfBatch(<<>>, 0)
       ELSE /\ last' = Ran("tick", "noop")
            /\ UNCHANGED <<spectra, loop>>

\* The timer fires: update, up to the first read of read_spectrum's loop
\* (to the end of the slot when range(self.scans_to_average) is empty).  A
\* timer event is not an input event: it does not wait in `queue`.
Tick ==
    /\ pc = "idle"
    /\ UNCHANGED <<session, device, capturing, buttons, status, queue>>
    /\ IF capturing /\ initialized
       THEN IF 0 < scans_to_average
            THEN /\ intensities' = <<>>
                 /\ n' = scans_to_average
                 /\ i' = 0
                 /\ pc' = "batch"
                 /\ last' = Ran("tick", "running")
                 /\ UNCHANGED <<averaged_intensities, plot_data>>
            ELSE EndOfBatch(<<>>, 0)
       ELSE /\ last' = Ran("tick", "noop")
            /\ UNCHANGED <<spectra, loop>>

\* The loop index after an iteration, were a failed read to end the batch.
NextIndex_Mut(idx, len, ok) == IF ok THEN idx + 1 ELSE len

\* The loop index after an iteration whose read succeeded (ok) or raised.
NextIndex(idx, len, ok) == idx + 1

\* One iteration of `for i in range(self.scans_to_average)`: the blocking
\* read returns the k-th reading (k > 0), or raises (k = 0) and the except
\* branch only prints.  After the last iteration the slot runs to its end.
Acquire ==
    /\ pc = "batch"
    /\ i < n
    /\ UNCHANGED <<session, device, capturing, buttons, status, queue>>
    /\ \E k \in 0..NScans :
          LET ok    == k > 0
              scans == IF ok THEN Append(intensities, Scan(k))
                             ELSE intensities
              j     == NextIndex(i, n, ok)
          IN  IF j < n
              THEN /\ intensities' = scans
                   /\ i' = j
                   /\ UNCHANGED <<averaged_intensities, plot_data, pc, n,
                                  last>>
              ELSE EndOfBatch(scans, i + 1)

\* ---------------------------------------------------------- specification

Next ==
    \/ ClickConnect
    \/ ClickStart
    \/ ClickStop
    \/ CommitIntegrationTime
    \/ CommitScansToAverage
    \/ ClickExport
    \/ Post
    \/ Tick
    \/ Acquire

Spec == Init /\ [][Next]_vars

\* ---------------------------------------------------------------- claims

\* The capture state of section 4.3, read off the two flags.
State ==
    IF ~initialized THEN "Idle"
    ELSE IF capturing THEN "Capturing" ELSE "Connected"

\* Everything the program holds, the bookkeeping of `queue` and `last` aside.
program == <<session, device, capturing, buttons, status, spectra, loop>>

\* This step is the event loop handing input event e to the program (its
\* slot runs, or the click falls on a disabled button).
Request(e) == pc = "idle" /\ last'.op = e

\* This step ends a batch of reads: the timer slot has run to its end.
BatchEnds == last'.op = "tick" /\ last'.result \in {"averaged", "retained"}

\* C1: a start_capture request made in state Idle or in state Capturing is
\* rejected and changes nothing; the state becomes Capturing only by a
\* start_capture request made in state Connected; capturing is never true
\* while no device is initialized.
C1_StartOnlyFromConnected ==
    [][ /\ (Request("start") /\ State # "Connected")
            => (last'.result = "refused" /\ UNCHANGED program)
        /\ (State # "Capturing" /\ State' = "Capturing")
            => (Request("start") /\ State = "Connected")
        /\ capturing' => initialized' ]_vars

C1_Witness == last.op = "start" /\ last.result = "refused" /\ State = "Idle"

\* C2: a stop_capture request is accepted only in state Capturing, where it
\* moves the state to Connected; in state Idle or Connected it is rejected
\* and changes nothing, so the start button is never enabled while no
\* device is initialized.
C2_StopOnlyFromCapturing ==
    [][ /\ (Request("stop") /\ State = "Capturing")
            => (last'.result = "ok" /\ State' = "Connected")
        /\ (Request("stop") /\ State # "Capturing")
            => (last'.result = "refused" /\ UNCHANGED program)
        /\ start_enabled' => initialized' ]_vars

C2_Witness == last.op = "stop" /\ last.result = "refused" /\ State = "Idle"

\* C3: a connect attempt that fails, at whichever step, leaves the state
\* Idle, the device handle unset and the wavelength calibration as it was.
C3_FailedConnectBindsNothing ==
    [][ (Request("connect") /\ last'.result = "failed")
            => (State' = "Idle" /\ spec' = 0 /\ wavelengths' = wavelengths)
      ]_vars

\* C4: once a connect attempt has bound a device handle, every later
\* connect request is refused and the handle is never replaced.
C4_ConnectIsOneShot ==
    [][ /\ (spec # 0 /\ Request("connect")) => last'.result = "refused"
        /\ spec # 0 => spec' = spec ]_vars

\* C5: once a connect has succeeded the state never returns to Idle: the
\* initialized flag stays true and the state only moves from Connected to
\* Capturing and from Capturing to Connected.
C5_NeverBackToIdle ==
    [][ /\ initialized => initialized'
        /\ (State = "Connected" /\ State' # State) => State' = "Capturing"
        /\ (State = "Capturing" /\ State' # State) => State' = "Connected"
      ]_vars

C5_Witness ==
    /\ State = "Capturing"
    /\ last.op = "commit_time"
    /\ last.result = "failed"
    /\ averaged_intensities # <<>>

\* C6: a batch none of whose reads succeeds leaves the averaged spectrum as
\* it was when the batch began, and the timer slot still runs to its end.
C6_EmptyBatchRetains ==
    [][ /\ (pc = "batch" /\ pc' = "batch")
            => averaged_intensities' = averaged_intensities
        /\ (BatchEnds /\ last'.scans = <<>>)
            => /\ averaged_intensities' = averaged_intensities
               /\ last'.result = "retained"
               /\ pc' = "idle" ]_vars

C6_Witness ==
    /\ last.op = "tick"
    /\ last.result = "retained"
    /\ last.attempts = DefaultScansToAverage
    /\ last.scans = <<>>
    /\ averaged_intensities # <<>>

\* C7: after a batch in which k >= 1 reads succeeded, the averaged spectrum
\* has one value per pixel and the value at pixel p, a fraction in lowest
\* terms, is the sum of the k scans at p divided by k.
C7_MeanOfSuccessfulScans ==
    (last.op = "tick" /\ last.result # "running" /\ Len(last.scans) >= 1)
        => /\ Len(averaged_intensities) = NPixels
           /\ \A p \in 1..NPixels :
                LET avg == averaged_intensities[p]
                    k   == Len(last.scans)
                IN  /\ avg[2] > 0
                    /\ avg[1] * k = avg[2] * SumCol(last.scans, p)
                    /\ GCD(avg[1], avg[2]) = 1

\* Three of four reads succeeded, with different readings.
C7_Witness ==
    /\ last.op = "tick"
    /\ last.attempts = DefaultScansToAverage
    /\ Len(last.scans) = DefaultScansToAverage - 1
    /\ \E a, b \in 1..Len(last.scans) : last.scans[a] # last.scans[b]

\* C8: a batch makes exactly as many reads as the depth configured when the
\* tick started it (none when that depth is not positive), whichever reads
\* fail and whatever the operator does in the meantime; a tick starts a
\* batch only while capturing is true.
C8_BatchRunsToDepth ==
    [][ /\ (pc = "idle" /\ pc' = "batch")
            => (capturing /\ n' = scans_to_average)
        /\ (pc = "idle" /\ BatchEnds)
            => (capturing /\ scans_to_average <= 0 /\ last'.attempts = 0)
        /\ (pc = "batch" /\ pc' = "batch")
            => (n' = n /\ i' \in {i, i + 1} /\ i' < n)
        /\ (pc = "batch" /\ pc' = "idle")
            => (BatchEnds /\ last'.attempts = n /\ i + 1 = n)
        /\ pc = "batch" => UNCHANGED <<capturing, scans_to_average>> ]_vars

\* A stop_capture click arrived during a batch of four reads, one of which
\* failed; the batch has ended and the click is still waiting.
C8_Witness ==
    /\ pc = "idle"
    /\ last.op = "tick"
    /\ last.attempts = DefaultScansToAverage
    /\ Len(last.scans) = DefaultScansToAverage - 1
    /\ queue = <<"stop">>
    /\ capturing

\* C9: the configured averaging depth and the configured integration time
\* are positive in every reachable state.
C9_ConfigPositive == scans_to_average > 0 /\ integration_time_us > 0

\* C10: the averaged spectrum is as long as the wavelength calibration in
\* every reachable state.
C10_SpectrumMatchesCalibration ==
    Len(averaged_intensities) = Len(wavelengths)

\* C11: an export requested while the averaged spectrum is empty fails with
\* the "no data" error: it writes no file, shows the error status and no
\* exception escapes export_data.
C11_ExportWithoutDataFails ==
    (last.op = "export" /\ averaged_intensities = <<>>)
        => /\ last.result = "no_data"
           /\ last.wrote = <<>>
           /\ status = "ERROR: No data to export"

\* C12: an integration-time update that fails (the instrument rejects it, or
\* none is connected) leaves the configured integration_time_us as it was,
\* equal to the time the instrument is using.
C12_FailedUpdateKeepsTime ==
    [][ (Request("commit_time") /\ last'.result = "failed")
            => /\ integration_time_us' = integration_time_us
               /\ device_time' # <<>>
                    => device_time' = <<integration_time_us'>> ]_vars

\* C13: a failed connect and a failed integration-time update each change
\* the status string and leave the capture state as it was; every connect
\* attempt and every export attempt ends with the status string set for it.
C13_FailuresReachTheStatus ==
    [][ /\ (Request("commit_time") /\ last'.result = "failed")
            => (status' # status /\ State' = State)
        /\ (Request("connect") /\ last'.result = "failed")
            => (status' = "No device detected" /\ State' = State)
        /\ (Request("connect") /\ last'.result = "ok")
            => status' = "Device initialized: USB2000"
        /\ Request("export")
            => status' \in {"ERROR: No data to export",
                            "ERROR: No file selected",
                            "INFO: Data exported to out.csv"} ]_vars

\* C14: an export for which the file dialog gave no path writes no file and
\* reports "ERROR: No file selected"; no export attempt, however it ends,
\* changes the capture state, the device, the configuration or the averaged
\* spectrum.
C14_ExportChangesNothing ==
    [][ Request("export")
            => /\ State' = State
               /\ UNCHANGED <<session, device, averaged_intensities>>
               /\ last'.path = ""
                    => /\ last'.wrote = <<>>
                       /\ status' = "ERROR: No file selected" ]_vars

C14_Witness ==
    /\ last.op = "export"
    /\ last.path = ""
    /\ last.wrote = <<>>
    /\ status = "ERROR: No file selected"
    /\ State = "Capturing"
    /\ averaged_intensities # <<>>

\* C15: a tick taken while the state is not Capturing reads nothing,
\* publishes nothing and leaves the averaged spectrum, the scan buffer, the
\* capture state and the configuration as they were; the averaged spectrum
\* changes only at the end of a batch taken in state Capturing in which at
\* least one read succeeded.
C15_IdleTickIsNoOp ==
    [][ /\ (pc = "idle" /\ last'.op = "tick" /\ State # "Capturing")
            => /\ last'.result = "noop"
               /\ last'.attempts = 0
               /\ UNCHANGED program
        /\ averaged_intensities' # averaged_intensities
            => /\ State = "Capturing"
               /\ BatchEnds
               /\ Len(last'.scans) >= 1 ]_vars

C15_Witness ==
    /\ last.op = "tick"
    /\ last.result = "noop"
    /\ State = "Connected"
    /\ averaged_intensities # <<>>

\* C16: when a tick taken in state Capturing ends, the data last given to
\* the plot is the pair (wavelengths, averaged spectrum as the batch left
\* it), also when no read of the batch succeeded.
C16_PublishedAfterBatch ==
    (last.op = "tick" /\ last.result \in {"averaged", "retained"})
        => plot_data = <<wavelengths, averaged_intensities>>

C16_Witness ==
    /\ last.op = "tick"
    /\ last.result = "retained"
    /\ last.attempts >= 1
    /\ averaged_intensities # <<>>
    /\ plot_data = <<Calibration, averaged_intensities>>

\* C17: the successful connect sets the wavelength calibration, and once the
\* machine has left Idle no step changes the calibration or its length.
C17_CalibrationFixed ==
    [][ /\ (Request("connect") /\ last'.result = "ok")
            => wavelengths' = Calibration
        /\ State # "Idle"
            => /\ wavelengths' = wavelengths
               /\ Len(wavelengths') = NPixels ]_vars

C17_Witness ==
    /\ State = "Connected"
    /\ last.op = "commit_time"
    /\ last.result = "failed"
    /\ averaged_intensities # <<>>
    /\ wavelengths = Calibration

\* C18: right after a successful connect the instrument's integration time
\* is the configured integration_time_us, also when that value was committed
\* in the field before the connect.
C18_ConnectAppliesTime ==
    (last.op = "connect" /\ last.result = "ok")
        => /\ State = "Connected"
           /\ device_time = <<integration_time_us>>

C18_Witness ==
    /\ last.op = "connect"
    /\ last.result = "ok"
    /\ integration_time_us = TypedPositive
    /\ device_time = <<TypedPositive>>

\* C19: while a batch is in flight no operator action and no other tick
\* runs: every step is a read of that batch (or an input event joining the
\* queue), so the configuration, the device, the capture state, the buttons
\* and the status stay as they are until the batch has ended.
C19_TickRunsToCompletion ==
    [][ pc = "batch"
            => /\ UNCHANGED <<session, device, capturing, buttons, status>>
               /\ last'.op = "tick"
               /\ pc' = "batch"
                    => /\ UNCHANGED <<n, last, averaged_intensities,
                                      plot_data>>
                       /\ i' >= i
                       /\ Len(intensities') >= Len(intensities) ]_vars

C19_Witness ==
    /\ pc = "batch"
    /\ i >= 1
    /\ intensities # <<>>
    /\ queue # <<>>
    /\ last = Ran("tick", "running")

\* C20: in every reachable state the stop button is enabled exactly when
\* capturing, the start button exactly when a device is initialized and not
\* capturing, the connect button exactly when no device is initialized; the
\* start and stop buttons are never both enabled.
C20_ButtonsTrackState ==
    /\ stop_enabled = capturing
    /\ start_enabled = (initialized /\ ~capturing)
    /\ connect_enabled = ~initialized
    /\ ~(start_enabled /\ stop_enabled)

C20_Witness ==
    /\ last.op = "start"
    /\ last.result = "ok"
    /\ State = "Capturing"
    /\ stop_enabled
    /\ ~start_enabled
    /\ ~connect_enabled

====
